---- MODULE Spec2Model ----
(***************************************************************************)
(* The key/value attention cache of the Whisper decoder, as it is driven   *)
(* by OpenVINOInference (whisper_transcribe.ipynb) through either of the   *)
(* two decoders: the patched torch decoder (decoder_forward and the        *)
(* forward overrides of the conversion notebook) and the compiled decoder  *)
(* (OpenVINOTextDecoder).  One OpenVINOInference per backend is driven     *)
(* with the same calls.                                                    *)
(*                                                                         *)
(* A tensor of shape (batch, sequence, feature) is a sequence of rows, a   *)
(* row a sequence of entries; the feature axis is one abstract entry that  *)
(* names the projection and the input it was computed from.  A Python dict *)
(* is a sequence of [key, val] records in insertion order; dict objects    *)
(* live in a heap so that references to them can be shared.                *)
(***************************************************************************)
EXTENDS Integers, Sequences, FiniteSets, TLC

\* ---- bounds of the model
MaxBatch == 2
MaxTokLen == 3
MaxSteps == 2
MaxRearrange == 1
MaxResets == 2

\* ---- program constants, scaled down (448, 1500, 12, 11 in the notebooks)
positional_embeddings_size == 2
n_audio_ctx == 3
n_layer == 2
engine_max_beam == 11
engine_max_seq == 600

TokenIds == {1, 2}
AudioIds == {1}
EncLens == {positional_embeddings_size, n_audio_ctx}
Backends == {"direct", "engine"}
Objs == 1..2
None == <<>>

Min(a, b) == IF a < b THEN a ELSE b

\* a sequence given by a rule, as the tuple of its elements
tuple(f) == f \o <<>>

\* ---- tensors -----------------------------------------------------------
shape0(t) == Len(t)
shape1(t) == Len(t[1])

\* a faulty variant: the new columns are dropped
cat_keep_old(a, b) == a

\* torch.cat([a, b], dim=1); defined when the batch sizes agree
cat(a, b) == tuple([r \in 1..Len(a) |-> a[r] \o b[r]])

\* np.zeros((beam_size, 0, audio_len))
\* a faulty variant: the placeholder has one row whatever the batch is
zeros_single_row(beam_size) == <<(<<>>)>>

zeros(beam_size) == tuple([r \in 1..beam_size |-> <<>>])

\* tensor[source_indices]: a gather along axis 0; Python indices, 0-based,
\* negative ones counted from the end
\* a faulty variant: indices from the end are refused
IndexOk_from_start_only(t, i) == 0 <= i /\ i < Len(t)

IndexOk(t, i) == -Len(t) <= i /\ i < Len(t)
RowAt(t, i) == IF i >= 0 THEN t[i + 1] ELSE t[Len(t) + i + 1]
CanIndex(t, source_indices) ==
    \A j \in 1..Len(source_indices) : IndexOk(t, source_indices[j])
\* a faulty variant: every selected row is the first selected one
index_select_first(t, source_indices) ==
    tuple([j \in 1..Len(source_indices) |-> RowAt(t, source_indices[1])])

index_select(t, source_indices) ==
    tuple([j \in 1..Len(source_indices) |-> RowAt(t, source_indices[j])])

\* tensor.shape[:2]; <<0, 0>> stands for no tensor
shape_of(t) == IF t = <<>> THEN <<0, 0>> ELSE <<shape0(t), shape1(t)>>

\* tokens[:, -1:]
last_column(tokens) ==
    tuple([r \in 1..Len(tokens) |-> <<tokens[r][Len(tokens[r])]>>])

\* ---- dicts -------------------------------------------------------------
Keys(d) == {d[i].key : i \in 1..Len(d)}
Get(d, k) == d[CHOOSE i \in 1..Len(d) : d[i].key = k].val
Put(d, k, v) ==
    IF k \in Keys(d)
    THEN tuple([i \in 1..Len(d) |->
                   IF d[i].key = k THEN [key |-> k, val |-> v] ELSE d[i]])
    ELSE Append(d, [key |-> k, val |-> v])

\* ---- slot identifiers --------------------------------------------------
\* f'{idx}a' / f'{idx}c' of block_forward under f'k_{idx}' / f'v_{idx}' of
\* attention_forward: the string k_0a is the tuple <<"k", "0", "a">>
LayerName == <<"0", "1", "2", "3">>
Layers == 1..n_layer
slot(proj, l, kind) == <<proj, LayerName[l], kind>>
SelfSlots == {slot(p, l, "a") : p \in {"k", "v"}, l \in Layers}
CrossSlots == {slot(p, l, "c") : p \in {"k", "v"}, l \in Layers}
AllSlots == SelfSlots \cup CrossSlots

\* ---- projections -------------------------------------------------------
\* attention_module.key / .value of layer l applied to x: one entry per input
\* entry, tagged with the projection
project(proj, l, kind, x) ==
    tuple([r \in 1..Len(x) |->
              tuple([i \in 1..Len(x[r]) |-> <<proj, LayerName[l], kind, x[r][i]>>])])

\* ---- the patched torch decoder ----------------------------------------
\* a faulty variant: the output always replaces the slot
save_to_cache_always_as_is(cache, module, output) ==
    [ok |-> TRUE, cache |-> Put(cache, module, output)]

\* a faulty variant: an output exactly as long as the positional table
\* already replaces the slot
save_to_cache_from_bound(cache, module, output) ==
    IF module \notin Keys(cache) \/ shape1(output) >= positional_embeddings_size
    THEN [ok |-> TRUE, cache |-> Put(cache, module, output)]
    ELSE IF shape0(Get(cache, module)) = shape0(output)
         THEN [ok |-> TRUE, cache |-> Put(cache, module, cat(Get(cache, module), output))]
         ELSE [ok |-> FALSE, cache |-> cache]

\* a faulty variant: the test looks at the length the slot already has
save_to_cache_by_old_length(cache, module, output) ==
    IF module \notin Keys(cache) \/ shape1(Get(cache, module)) = positional_embeddings_size
    THEN [ok |-> TRUE, cache |-> Put(cache, module, output)]
    ELSE IF shape0(Get(cache, module)) = shape0(output)
         THEN [ok |-> TRUE, cache |-> Put(cache, module, cat(Get(cache, module), output))]
         ELSE [ok |-> FALSE, cache |-> cache]

save_to_cache(cache, module, output) ==
    IF module \notin Keys(cache) \/ shape1(output) > positional_embeddings_size
    THEN [ok |-> TRUE, cache |-> Put(cache, module, output)]
    ELSE IF shape0(Get(cache, module)) = shape0(output)
         THEN [ok |-> TRUE,
               cache |-> Put(cache, module, cat(Get(cache, module), output))]
         ELSE [ok |-> FALSE, cache |-> cache]

\* save_to_cache on the dict so far, unless an earlier call has raised
saved(st, module, output) ==
    IF st.ok THEN save_to_cache(st.cache, module, output) ELSE st

projected(st, proj, l, kind, src) ==
    saved(st, slot(proj, l, kind), project(proj, l, kind, src))

\* One attention module with kv_cache a dict: key and value projections of x
\* (self-attention, xa is None) or of xa (cross-attention) both go through
\* save_to_cache; in the cross-attention branch save_to_cache is the default
\* argument of kv_cache.get and so is evaluated on every call.
\* attention_module.qkv_attention(q, k, v, mask): the product q @ k broadcasts
\* the batch axes of the query (the batch of x) and of the saved keys, and
\* raises when they differ and neither is 1; the dict holds what was saved
\* before
broadcastable(a, b) == a = b \/ a = 1 \/ b = 1
qkv_attention(st, l, kind, x) ==
    IF st.ok /\ ~broadcastable(shape0(x), shape0(Get(st.cache, slot("k", l, kind))))
    THEN [ok |-> FALSE, cache |-> st.cache]
    ELSE st

attention_forward(st, l, kind, x, xa) ==
    qkv_attention(projected(projected(st, "k", l, kind, IF xa = None THEN x ELSE xa),
                            "v", l, kind, IF xa = None THEN x ELSE xa),
                  l, kind, x)

\* a faulty variant: the cross-attention of the block is skipped
block_forward_self_only(st, l, x, xa) ==
    attention_forward(st, l, "a", x, None)

\* residual_block.attn, then residual_block.cross_attn
\* a faulty variant: the block attends on the audio before it attends on x
block_forward_cross_first(st, l, x, xa) ==
    attention_forward(attention_forward(st, l, "c", x, xa), l, "a", x, None)

block_forward(st, l, x, xa) ==
    attention_forward(attention_forward(st, l, "a", x, None), l, "c", x, xa)

RECURSIVE blocks_from(_, _, _, _)
blocks_from(l, st, x, xa) ==
    IF l > n_layer THEN st ELSE blocks_from(l + 1, block_forward(st, l, x, xa), x, xa)

\* token_embedding(x) + positional_embedding[offset : offset + x.shape[-1]]:
\* the slice is clipped to the table, the sum broadcasts a length of 1
PosLo(offset) == Min(offset, positional_embeddings_size)
PosLen(offset, n) == Min(offset + n, positional_embeddings_size) - PosLo(offset)
CanEmbed(offset, n) ==
    PosLen(offset, n) = n \/ PosLen(offset, n) = 1 \/ n = 1
embedded(x, n, m, lo) ==
    tuple([r \in 1..Len(x) |->
        IF n = 1
        THEN tuple([i \in 1..m |-> <<x[r][1], lo + i>>])
        ELSE tuple([i \in 1..n |->
                       <<x[r][i], IF m = 1 THEN lo + 1 ELSE lo + i>>])])

\* a faulty variant: only the last token is embedded
embed_last(x, offset) ==
    embedded(last_column(x), 1, PosLen(offset, 1), PosLo(offset))

embed(x, offset) ==
    embedded(x, shape1(x), PosLen(offset, shape1(x)), PosLo(offset))

first_value_offset(kv_cache) ==
    IF kv_cache # <<>> THEN shape1(kv_cache[1].val) ELSE 0

\* a faulty variant: a call that raises leaves an emptied dict behind
Failure_emptying(err, cache) ==
    [ok |-> FALSE, err |-> err, logits |-> <<>>, cache |-> <<>>]

Failure(err, cache) == [ok |-> FALSE, err |-> err, logits |-> <<>>, cache |-> cache]

\* the logits and the dict after the blocks, or the exception of a block
decoded(h, st) ==
    IF st.ok
    THEN [ok |-> TRUE, err |-> "", logits |-> h, cache |-> st.cache]
    ELSE Failure("ShapeMismatch", st.cache)

through_blocks(h, xa, kv_cache) ==
    decoded(h, blocks_from(1, [ok |-> TRUE, cache |-> kv_cache], h, xa))

\* a faulty variant: without x = x.to(xa.dtype) missing features go unnoticed
\* and the blocks attend on x itself
decoder_forward_no_dtype(x, xa, kv_cache) ==
    IF ~CanEmbed(first_value_offset(kv_cache), shape1(x)) THEN Failure("ShapeMismatch", kv_cache)
    ELSE through_blocks(embed(x, first_value_offset(kv_cache)), xa, kv_cache)

decoder_forward(x, xa, kv_cache) ==
    IF ~CanEmbed(first_value_offset(kv_cache), shape1(x))
    THEN Failure("ShapeMismatch", kv_cache)
    ELSE IF xa = None THEN Failure("MissingFeatures", kv_cache)
    ELSE through_blocks(embed(x, first_value_offset(kv_cache)), xa, kv_cache)

\* ---- the export of the decoder ----------------------------------------
ones(batch, n) == tuple([r \in 1..batch |-> tuple([i \in 1..n |-> 1])])

\* audio_features of one audio: encoder rows, one per batch row
features(aid, enc, batch) ==
    tuple([r \in 1..batch |-> tuple([j \in 1..enc |-> <<aid, r, j>>])])

\* the trace cell: model.decoder(tokens, audio_features, kv_cache={}), whose
\* dict gives the names and the order of the exported inputs and outputs
traced_kv_cache == decoder_forward(ones(1, 1), features(1, n_audio_ctx, 1), <<>>).cache
traced_keys == tuple([i \in 1..Len(traced_kv_cache) |-> traced_kv_cache[i].key])

in_name(k) == <<"in">> \o k
out_name(k) == <<"out">> \o k

\* The branch of save_to_cache the tracer recorded for a slot (the Python test
\* is a constant of the trace, see the TracerWarning of the export cell): the
\* export runs with every slot in the cache, one token and the full encoder
\* length.
traced_as_is(k) ==
    (IF k[3] = "c" THEN n_audio_ctx ELSE 1) > positional_embeddings_size

\* inputs of the converted graph: an in_<slot> the recorded branch never reads
\* is no input of it (the printed input shapes; input_shapes of mo.convert_model)
input_names ==
    <<(<<"tokens">>), (<<"audio_features">>)>> \o
    SelectSeq(tuple([i \in 1..Len(traced_keys) |-> in_name(traced_keys[i])]),
              LAMBDA nm : ~traced_as_is(Tail(nm)))
output_names ==
    <<(<<"logits">>)>> \o tuple([i \in 1..Len(traced_keys) |-> out_name(traced_keys[i])])

Range(s) == {s[i] : i \in 1..Len(s)}

\* dict.update(other): the entries of other, in their order, put into d
RECURSIVE update(_, _)
update(d, other) ==
    IF other = <<>> THEN d
    ELSE update(Put(d, other[1].key, other[1].val), Tail(other))

\* {0: "beam_size", 1: "prev_seq_len"}
beam_and_prev_seq == <<[key |-> 0, val |-> "beam_size"], [key |-> 1, val |-> "prev_seq_len"]>>

\* a faulty variant: only the self-attention names get a dynamic axis 1
axes_for_self_only(names) ==
    tuple([i \in 1..Len(names) |->
              [key |-> names[i],
               val |-> IF names[i][4] = "a" THEN beam_and_prev_seq
                       ELSE <<[key |-> 0, val |-> "beam_size"]>>]])

\* {o: {0: "beam_size", 1: "prev_seq_len"} for o in outputs}, and the same
\* comprehension over inputs
axes_for(names) ==
    tuple([i \in 1..Len(names) |-> [key |-> names[i], val |-> beam_and_prev_seq]])

\* outputs = [f"out_{k}" for k in kv_cache.keys()], inputs likewise
export_outputs == tuple([i \in 1..Len(traced_keys) |-> out_name(traced_keys[i])])
export_inputs == tuple([i \in 1..Len(traced_keys) |-> in_name(traced_keys[i])])

\* the dynamic_axes argument of torch.onnx.export
dynamic_axes ==
    update(update(<<[key |-> <<"tokens">>,
                     val |-> <<[key |-> 0, val |-> "beam_size"],
                               [key |-> 1, val |-> "seq_len"]>>],
                    [key |-> <<"audio_features">>,
                     val |-> <<[key |-> 0, val |-> "beam_size"]>>],
                    [key |-> <<"logits">>,
                     val |-> <<[key |-> 0, val |-> "beam_size"],
                               [key |-> 1, val |-> "seq_len"]>>]>>,
                  axes_for(export_outputs)),
           axes_for(export_inputs))

\* the shapes the graph was converted for:
\* tokens[1..11 1..600], audio_features[1..11 1500 768], in_<slot>[1..11 0..600 768]
InBounds(nm, t) ==
    /\ shape0(t) \in 1..engine_max_beam
    /\ nm = <<"tokens">> => shape1(t) \in 1..engine_max_seq
    /\ nm = <<"audio_features">> => shape1(t) = n_audio_ctx
    /\ nm[1] = "in" => shape1(t) \in 0..engine_max_seq

FeedInBounds(feed_dict) ==
    \A nm \in Range(input_names) :
        nm \in Keys(feed_dict) /\ InBounds(nm, Get(feed_dict, nm))

\* one output of the graph for slot k: the recorded branch of save_to_cache
graph_save(feed_dict, k, new) ==
    IF traced_as_is(k) THEN new ELSE cat(Get(feed_dict, in_name(k)), new)

graph_slot(feed_dict, k, h) ==
    graph_save(feed_dict, k,
               project(k[1], CHOOSE l \in Layers : LayerName[l] = k[2], k[3],
                       IF k[3] = "c" THEN Get(feed_dict, <<"audio_features">>) ELSE h))

ShapesOk(feed_dict, x, names, keys) ==
    /\ CanEmbed(shape1(Get(feed_dict, names[3])), shape1(x))
    /\ \A i \in 1..Len(keys) :
          ~traced_as_is(keys[i]) =>
              shape0(Get(feed_dict, in_name(keys[i]))) = shape0(x)

GraphShapesOk(feed_dict) ==
    ShapesOk(feed_dict, Get(feed_dict, <<"tokens">>), input_names, traced_keys)

\* self.compiled_model(feed_dict)
graph_outputs(feed_dict, h, names, keys) ==
    tuple([i \in 1..Len(names) |->
              [key |-> names[i],
               val |-> IF i = 1 THEN h ELSE graph_slot(feed_dict, keys[i - 1], h)]])

compiled_model(feed_dict) ==
    IF ~FeedInBounds(feed_dict) \/ ~GraphShapesOk(feed_dict)
    THEN [ok |-> FALSE, outputs |-> <<>>]
    ELSE [ok |-> TRUE,
          outputs |->
            graph_outputs(feed_dict,
                          embed(Get(feed_dict, <<"tokens">>),
                                shape1(Get(feed_dict, input_names[3]))),
                          output_names, traced_keys)]

\* ---- OpenVINOTextDecoder ----------------------------------------------
RECURSIVE init_past_inputs_from(_, _)
init_past_inputs_from(i, feed_dict) ==
    IF i > Len(input_names) THEN feed_dict
    ELSE init_past_inputs_from(i + 1,
            IF input_names[i] \in {<<"tokens">>, <<"audio_features">>}
            THEN feed_dict
            ELSE Put(feed_dict, input_names[i],
                     zeros(shape0(Get(feed_dict, <<"tokens">>)))))

\* a faulty variant: the first step gets no placeholders
init_past_inputs_skipped(feed_dict) == feed_dict

init_past_inputs(feed_dict) == init_past_inputs_from(1, feed_dict)

\* a faulty variant: every cached slot is fed, declared input or not
RECURSIVE feed_cache_from_all(_, _, _)
feed_cache_from_all(i, feed_dict, kv_cache) ==
    IF i > Len(kv_cache) THEN feed_dict
    ELSE feed_cache_from_all(i + 1,
            Put(feed_dict, in_name(kv_cache[i].key), kv_cache[i].val), kv_cache)

RECURSIVE feed_cache_from(_, _, _)
feed_cache_from(i, feed_dict, kv_cache) ==
    IF i > Len(kv_cache) THEN feed_dict
    ELSE feed_cache_from(i + 1,
            IF in_name(kv_cache[i].key) \in Range(input_names)
            THEN Put(feed_dict, in_name(kv_cache[i].key), kv_cache[i].val)
            ELSE feed_dict,
            kv_cache)

preprocess_kv_cache_inputs(feed_dict, kv_cache) ==
    IF kv_cache = <<>> THEN init_past_inputs(feed_dict)
    ELSE feed_cache_from(1, feed_dict, kv_cache)

\* a faulty variant: the out_ prefix stays in the slot name
strip_out_keep(nm) == nm

\* tensor_name.replace('out_', '')
strip_out(nm) == SelectSeq(nm, LAMBDA e : e # "out")

RECURSIVE postprocess_from(_, _, _)
postprocess_from(i, outputs, acc) ==
    IF i > Len(outputs) THEN acc
    ELSE postprocess_from(i + 1, outputs,
            IF "logits" \in Range(outputs[i].key)
            THEN [acc EXCEPT !.logits = outputs[i].val]
            ELSE [acc EXCEPT !.cache =
                     Put(acc.cache, strip_out(outputs[i].key), outputs[i].val)])

postprocess_outputs(outputs) ==
    postprocess_from(1, outputs, [ok |-> TRUE, err |-> "", logits |-> <<>>, cache |-> <<>>])

\* OpenVINOTextDecoder.forward
\* return self.postprocess_outputs(res), or the exception of the engine
returned(res, kv_cache) ==
    IF res.ok THEN postprocess_outputs(res.outputs)
    ELSE Failure("ShapeMismatch", kv_cache)

\* feed_dict = {'tokens': Tensor(x.numpy()), 'audio_features': Tensor(xa.numpy())}
\* feed_dict = self.preprocess_kv_cache_inputs(feed_dict, kv_cache)
feed_dict_of(x, xa, kv_cache) ==
    preprocess_kv_cache_inputs(<<[key |-> <<"tokens">>, val |-> x],
                                 [key |-> <<"audio_features">>, val |-> xa]>>, kv_cache)

\* a faulty variant: missing features are handed to the engine, which
\* rejects them as an input of the wrong shape
forward_unchecked(x, xa, kv_cache) ==
    returned(compiled_model(feed_dict_of(x, xa, kv_cache)), kv_cache)

forward(x, xa, kv_cache) ==
    IF xa = None THEN Failure("MissingFeatures", kv_cache)
    ELSE returned(compiled_model(feed_dict_of(x, xa, kv_cache)), kv_cache)

\* self.model.decoder of the OpenVINOInference of backend bk
decoder(bk, x, xa, kv_cache) ==
    IF bk = "direct" THEN decoder_forward(x, xa, kv_cache) ELSE forward(x, xa, kv_cache)

\* ---- OpenVINOInference, one per backend --------------------------------
VARIABLES
    heap,                  \* [backend -> [object -> dict]]: the dict objects
    self_kv_cache,         \* [backend -> object]: self.kv_cache
    kept,                  \* [backend -> object or 0]: the dict the caller kept at the last reset
    kept_val,              \* [backend -> dict]: what that dict held when it was kept
    owner,                 \* [backend -> [object -> "free" | "run" | "old"]]: the run that made the dict
    initial_token_length,  \* self.initial_token_length
    nsteps,                \* calls of logits so far
    nrearr,                \* calls of rearrange_kv_cache so far
    nresets,               \* calls of cleanup_caching and of decode so far
    fed,                   \* [backend -> token columns fed by successful steps since the cache was empty]
    ret                    \* the last call, what it returned or raised, and the
                           \* feed_dict the compiled decoder was given in it

\* the video cells of the transcription notebook; times are whole
\* milliseconds, chunk lengths whole seconds
VARIABLES
    clip_duration,         \* clip.duration of downloaded_video.mp4
    duration,              \* the duration argument of the last split_video, 0 before it
    audio_files,           \* the list split_video returned: <<start_time, end_time>> of each file
    transcription,         \* the notebook's global of that name, None while undefined
    txt_file,              \* lines of downloaded_video.txt, None while not written
    srt_file,              \* lines of downloaded_video.srt, None while not written
    cell,                  \* the next cell to run
    seconds,               \* the argument of a call of format_timestamp on its own
    timestamp              \* what that call returned or raised, None before it

decoder_vars == <<heap, self_kv_cache, kept, kept_val, owner, initial_token_length,
                  nsteps, nrearr, nresets, fed, ret>>
video_vars == <<clip_duration, duration, audio_files, transcription, txt_file, srt_file, cell>>
notebook_vars == <<video_vars, seconds, timestamp>>
vars == <<decoder_vars, notebook_vars>>

cache_of(bk) == heap[bk][self_kv_cache[bk]]

\* The object a new dict gets when self.kv_cache is rebound to it: the dict
\* self.kv_cache held is gone unless the caller kept it, and at most two dicts
\* are ever referenced, so two object names are enough.
other(o) == 3 - o
fresh(bk) ==
    IF kept[bk] = self_kv_cache[bk] THEN other(self_kv_cache[bk])
    ELSE IF kept[bk] = 0 THEN self_kv_cache[bk]
    ELSE other(kept[bk])

\* objects no reference holds any more are gone
collect(h, refs) == [o \in Objs |-> IF o \in refs THEN h[o] ELSE <<>>]
collect_owner(w, refs) == [o \in Objs |-> IF o \in refs THEN w[o] ELSE "free"]

NoCall(op) ==
    [op |-> op, batch |-> 0, len |-> 0, n |-> 0, enc |-> 0, aid |-> 0, sel |-> <<>>,
     ok |-> [bk \in Backends |-> TRUE], err |-> [bk \in Backends |-> ""],
     logits |-> [bk \in Backends |-> <<0, 0>>], feed |-> <<>>]

\* OpenVINOInference.__init__ (through OpenVINODecodingTask.__init__)
InitDecoder ==
    /\ heap = [bk \in Backends |-> [o \in Objs |-> <<>>]]
    /\ self_kv_cache = [bk \in Backends |-> 1]
    /\ kept = [bk \in Backends |-> 0]
    /\ kept_val = [bk \in Backends |-> <<>>]
    /\ owner = [bk \in Backends |-> [o \in Objs |-> IF o = 1 THEN "run" ELSE "free"]]
    /\ initial_token_length \in 1..positional_embeddings_size
    /\ nsteps = 0
    /\ nrearr = 0
    /\ nresets = 0
    /\ fed = [bk \in Backends |-> 0]
    /\ ret = NoCall("decode")

\* the video cells have not run and format_timestamp has not been called
video_not_run ==
    /\ clip_duration = 0
    /\ duration = 0
    /\ audio_files = <<>>
    /\ transcription = None
    /\ txt_file = None
    /\ srt_file = None
    /\ cell = "none"
timestamp_not_called ==
    /\ seconds = 0
    /\ timestamp = None

Init ==
    /\ InitDecoder
    /\ video_not_run
    /\ timestamp_not_called

\* the dict object a new OpenVINOInference starts with, and what it holds:
\* self.kv_cache = {}
new_inference_dict(bk) == fresh(bk)

\* a faulty variant: the new inference starts with the contents of the last one
inherited_kv_cache(bk) == cache_of(bk)

new_kv_cache(bk) == <<>>

\* decode: OpenVINODecodingTask(model, options) makes a new OpenVINOInference
\* of its own, with initial_token_length = len(self.initial_tokens); the
\* inference of the previous run is dropped
decode(itl) ==
    /\ self_kv_cache' = [bk \in Backends |-> new_inference_dict(bk)]
    /\ heap' = [bk \in Backends |->
                  collect([heap[bk] EXCEPT ![self_kv_cache'[bk]] = new_kv_cache(bk)],
                          {self_kv_cache'[bk], kept[bk]})]
    /\ owner' = [bk \in Backends |->
                  collect_owner([o \in Objs |->
                                    IF o = self_kv_cache'[bk] THEN "run"
                                    ELSE IF owner[bk][o] = "run" THEN "old"
                                    ELSE owner[bk][o]],
                                {self_kv_cache'[bk], kept[bk]})]
    /\ initial_token_length' = itl
    /\ fed' = [bk \in Backends |-> 0]
    /\ ret' = NoCall("decode")
    /\ nresets < MaxResets
    /\ nresets' = nresets + 1
    /\ UNCHANGED notebook_vars
    /\ UNCHANGED <<kept, kept_val, nsteps, nrearr>>

\* a faulty variant: a sequence of exactly initial_token_length tokens is
\* already cut to its last column
fed_tokens_cut_early(tokens) ==
    IF shape1(tokens) >= initial_token_length THEN last_column(tokens) ELSE tokens

\* the tokens the decoder is given by OpenVINOInference.logits
fed_tokens(tokens) ==
    IF shape1(tokens) > initial_token_length THEN last_column(tokens) ELSE tokens

\* a faulty variant: a decoder call that raised is made again on an empty cache
or_else(r, alt) == IF r.ok THEN r ELSE alt
step_result_with_fallback(bk, tokens, audio_features) ==
    or_else(decoder(bk, fed_tokens(tokens), audio_features, cache_of(bk)),
            decoder(bk, fed_tokens(tokens), audio_features, <<>>))

\* logits, self.kv_cache = self.model.decoder(tokens, audio_features, kv_cache=self.kv_cache)
step_result(bk, tokens, audio_features) ==
    decoder(bk, fed_tokens(tokens), audio_features, cache_of(bk))

\* The patched torch decoder writes into the dict it is given, also when it
\* raises; the compiled decoder returns a new dict, bound only on return.
in_place(bk) == bk = "direct"

\* what the OpenVINOInference of backend bk holds after the call, and what the
\* call returned
bound(bk, r, target, n) ==
    [ref |-> target,
     heap |-> collect([heap[bk] EXCEPT ![target] =
                          IF in_place(bk) \/ r.ok THEN r.cache ELSE @],
                      {target, kept[bk]}),
     owner |-> collect_owner([owner[bk] EXCEPT ![target] =
                                IF target = self_kv_cache[bk] THEN @ ELSE "run"],
                             {target, kept[bk]}),
     fed |-> IF r.ok THEN fed[bk] + n ELSE fed[bk],
     ok |-> r.ok, err |-> r.err, logits |-> shape_of(r.logits)]

\* a faulty variant: the step writes into the dict the caller kept
rebound_into_kept(bk, r, n) ==
    bound(bk, r, IF kept[bk] # 0 THEN kept[bk] ELSE self_kv_cache[bk], n)

rebound(bk, r, n) ==
    bound(bk, r, IF in_place(bk) \/ ~r.ok THEN self_kv_cache[bk] ELSE fresh(bk), n)

logits_of(bk, tokens, audio_features) ==
    rebound(bk, step_result(bk, tokens, audio_features), shape1(fed_tokens(tokens)))

per_backend(d, e) == [bk \in Backends |-> IF bk = "direct" THEN d ELSE e]

\* the call on the inference of either backend: d and e are what they hold
\* and return afterwards
logits_on_both(tokens, audio_features, d, e) ==
    /\ self_kv_cache' = per_backend(d.ref, e.ref)
    /\ heap' = per_backend(d.heap, e.heap)
    /\ owner' = per_backend(d.owner, e.owner)
    /\ fed' = per_backend(d.fed, e.fed)
    /\ ret' = [op |-> "logits", batch |-> shape0(tokens),
               len |-> shape1(tokens),
               n |-> shape1(fed_tokens(tokens)),
               enc |-> IF audio_features = None THEN 0 ELSE shape1(audio_features),
               aid |-> IF audio_features = None THEN 0 ELSE audio_features[1][1][1],
               sel |-> <<>>,
               ok |-> per_backend(d.ok, e.ok),
               err |-> per_backend(d.err, e.err),
               logits |-> per_backend(d.logits, e.logits),
               feed |-> IF audio_features = None THEN <<>>
                        ELSE feed_dict_of(fed_tokens(tokens), audio_features,
                                          cache_of("engine"))]

logits(tokens, audio_features) ==
    /\ nsteps < MaxSteps
    /\ logits_on_both(tokens, audio_features,
                      logits_of("direct", tokens, audio_features),
                      logits_of("engine", tokens, audio_features))
    /\ nsteps' = nsteps + 1
    /\ UNCHANGED notebook_vars
    /\ UNCHANGED <<kept, kept_val, initial_token_length, nrearr, nresets>>

\* a faulty variant: the dict held so far is emptied in place
cleanup_dict_same(bk) == self_kv_cache[bk]

\* self.kv_cache = {}: a new dict, while the caller keeps the one held so far
cleanup_dict(bk) == other(self_kv_cache[bk])

\* cleanup_caching; the caller keeps the dict it read from inference.kv_cache
\* before the call (the previous segment's final cache)
cleanup_caching ==
    /\ self_kv_cache' = [bk \in Backends |-> cleanup_dict(bk)]
    /\ kept' = self_kv_cache
    /\ kept_val' = [bk \in Backends |-> cache_of(bk)]
    /\ heap' = [bk \in Backends |->
                  collect([heap[bk] EXCEPT ![self_kv_cache'[bk]] = <<>>],
                          {self_kv_cache'[bk], kept'[bk]})]
    /\ owner' = [bk \in Backends |->
                  collect_owner([owner[bk] EXCEPT ![self_kv_cache'[bk]] = "run"],
                                {self_kv_cache'[bk], kept'[bk]})]
    /\ fed' = [bk \in Backends |-> 0]
    /\ ret' = NoCall("cleanup_caching")
    /\ nresets < MaxResets
    /\ nresets' = nresets + 1
    /\ UNCHANGED notebook_vars
    /\ UNCHANGED <<initial_token_length, nsteps, nrearr>>

\* for module, tensor in self.kv_cache.items(): self.kv_cache[module] = tensor[source_indices]
\* a faulty variant: only the first slot is gathered
rearrange_from_first_only(i, d, source_indices) ==
    IF i > Len(d) THEN [ok |-> TRUE, cache |-> d]
    ELSE IF CanIndex(d[i].val, source_indices)
         THEN [ok |-> TRUE,
               cache |-> [d EXCEPT ![i].val = index_select(d[i].val, source_indices)]]
         ELSE [ok |-> FALSE, cache |-> d]

RECURSIVE rearrange_from(_, _, _)
rearrange_from(i, d, source_indices) ==
    IF i > Len(d) THEN [ok |-> TRUE, cache |-> d]
    ELSE IF CanIndex(d[i].val, source_indices)
         THEN rearrange_from(i + 1,
                  [d EXCEPT ![i].val = index_select(d[i].val, source_indices)],
                  source_indices)
         ELSE [ok |-> FALSE, cache |-> d]

rearranged(d, source_indices) == rearrange_from(1, d, source_indices)

rearrange_on_both(source_indices, d, e) ==
    /\ heap' = per_backend(
           [heap["direct"] EXCEPT ![self_kv_cache["direct"]] = d.cache],
           [heap["engine"] EXCEPT ![self_kv_cache["engine"]] = e.cache])
    /\ ret' = [NoCall("rearrange_kv_cache") EXCEPT
                 !.batch = Len(source_indices),
                 !.sel = source_indices,
                 !.ok = per_backend(d.ok, e.ok),
                 !.err = per_backend(IF d.ok THEN "" ELSE "IndexOutOfRange",
                                     IF e.ok THEN "" ELSE "IndexOutOfRange")]

rearrange_kv_cache(source_indices) ==
    /\ nrearr < MaxRearrange
    /\ nrearr' = nrearr + 1
    /\ rearrange_on_both(source_indices,
                         rearranged(cache_of("direct"), source_indices),
                         rearranged(cache_of("engine"), source_indices))
    /\ UNCHANGED notebook_vars
    /\ UNCHANGED <<self_kv_cache, kept, kept_val, owner, initial_token_length, nsteps,
                   nresets, fed>>

\* ---- inputs -------------------------------------------------------------
tokens_of(batch, len) ==
    tuple([r \in 1..batch |->
              tuple([i \in 1..len |-> 1 + ((r + i) % Cardinality(TokenIds))])])
TokenInputs ==
    {tokens_of(b, len) : b \in 1..MaxBatch, len \in 1..MaxTokLen}
FeatureInputs(batch) ==
    {None} \cup {features(aid, enc, batch) : aid \in AudioIds, enc \in EncLens}
\* selections of beam search and of its callers' mistakes, for a cache of batch
\* size b: keep one beam, reverse the beams, repeat the last beam and drop the
\* others, take the last beam from the end, and an index past either end
reversed(b) == tuple([j \in 1..b |-> b - j])
IndexInputs(b) ==
    {<<0>>, reversed(b), <<b - 1, b - 1>>, <<-1>>, <<b>>, <<-b - 1>>}
cache_batch(d) == IF d = <<>> THEN 1 ELSE shape0(d[1].val)

Next ==
    \/ \E itl \in 1..positional_embeddings_size : decode(itl)
    \/ \E tokens \in TokenInputs :
          \E audio_features \in FeatureInputs(shape0(tokens)) :
              logits(tokens, audio_features)
    \/ cleanup_caching
    \/ \E source_indices \in IndexInputs(cache_batch(cache_of("engine"))) :
          rearrange_kv_cache(source_indices)

Spec == Init /\ [][Next]_vars

\* ---- properties ----------------------------------------------------------
seq_len(d, k) == shape1(Get(d, k))
batch_of(d) == shape0(d[1].val)
SlotShapes(d) == {<<d[i].key, shape_of(d[i].val)>> : i \in 1..Len(d)}
stepped(bk) == ret.op = "logits" /\ ret.ok[bk]

\* C1: in a run that started from an empty cache and has had no reset since,
\* as long as the tokens fed by its successful steps stay within the
\* positional-embedding bound, every self-attention key and value slot of
\* every layer has a sequence length equal to the number of tokens fed so far.
SelfSlotLengthIsTokensFed ==
    \A bk \in Backends :
        (cache_of(bk) # <<>> /\ fed[bk] <= positional_embeddings_size) =>
            \A k \in SelfSlots :
                k \in Keys(cache_of(bk)) /\ seq_len(cache_of(bk), k) = fed[bk]

\* two successful steps of one token each, on both backends
SelfSlotGrewByTwoSteps ==
    /\ nsteps = 2 /\ ret.n = 1
    /\ \A bk \in Backends :
          /\ stepped(bk) /\ fed[bk] = 2
          /\ seq_len(cache_of(bk), slot("k", 1, "a")) = 2

\* the step of ret' was given the very features the cross-attention slots of
\* the cache were computed from
SameFeaturesAsCached(bk) ==
    /\ CrossSlots \subseteq Keys(cache_of(bk))
    /\ ret'.enc # 0
    /\ Get(cache_of(bk), slot("k", 1, "c")) =
           project("k", 1, "c", features(ret'.aid, ret'.enc, ret'.batch))

\* C2: once the cross-attention slots are populated, every later successful
\* step of the run (given the same encoder features) leaves each cross-attention
\* slot with the same value, hence the same sequence length, whatever the
\* encoder length is relative to the positional-embedding size.
CrossSlotsNeverMutated ==
    [][\A bk \in Backends :
          (ret'.op = "logits" /\ ret'.ok[bk] /\ SameFeaturesAsCached(bk)) =>
              \A k \in CrossSlots :
                  Get(cache_of(bk)', k) = Get(cache_of(bk), k)]_vars

InConvertedShapes(r) ==
    /\ r.batch \in 1..engine_max_beam
    /\ r.n \in 1..engine_max_seq
    /\ r.enc \in {0, n_audio_ctx}

rows(t, sel) == tuple([j \in 1..Len(sel) |-> t[sel[j] + 1]])
Selections(b) == UNION {[1..m -> 0..(b - 1)] : m \in 1..MaxBatch}

\* one step on the cache d of its own, then the selection of the result
then_reindexed(r, sel) ==
    IF r.ok
    THEN [ok |-> TRUE, logits |-> rows(r.logits, sel),
          cache |-> rearranged(r.cache, sel).cache]
    ELSE [ok |-> FALSE, logits |-> <<>>, cache |-> <<>>]

step_then_reindex(bk, tokens, xa, d, sel) ==
    then_reindexed(decoder(bk, fed_tokens(tokens), xa, d), sel)

\* the selection of the cache, then one step with the selected rows
outcome(r) ==
    IF r.ok
    THEN [ok |-> TRUE, logits |-> r.logits, cache |-> r.cache]
    ELSE [ok |-> FALSE, logits |-> <<>>, cache |-> <<>>]

reindex_then_step(bk, tokens, xa, d, sel) ==
    outcome(decoder(bk, fed_tokens(rows(tokens, sel)), rows(xa, sel),
                    rearranged(d, sel).cache))

\* C4: for every cache a step or a reindex has produced and every selection
\* of indices within its batch, reindexing the cache and then stepping with
\* the selected token (and feature) rows gives the same outcome, slot by slot
\* and row by row, as stepping the whole batch and then reindexing the result.
ReindexCommutesWithStep ==
    \A bk \in Backends :
        (cache_of(bk) # <<>> /\ ret.ok[bk] /\ ret.op \in {"logits", "rearrange_kv_cache"}) =>
            \A sel \in Selections(batch_of(cache_of(bk))) :
            \A tokens \in {tokens_of(batch_of(cache_of(bk)), len) : len \in 1..MaxTokLen} :
            \A xa \in {features(aid, enc, batch_of(cache_of(bk))) :
                           aid \in AudioIds, enc \in EncLens} :
                step_then_reindex(bk, tokens, xa, cache_of(bk), sel)
                = reindex_then_step(bk, tokens, xa, cache_of(bk), sel)

\* a cache of two beams that differ, which a step can extend on both backends
TwoBeamCacheToReindex ==
    \A bk \in Backends :
        /\ stepped(bk) /\ batch_of(cache_of(bk)) = 2
        /\ cache_of(bk)[1].val[1] # cache_of(bk)[1].val[2]
        /\ step_then_reindex(bk, tokens_of(2, 1), features(1, n_audio_ctx, 2),
                             cache_of(bk), <<1, 0>>).ok

\* row i of t, a Python index: negative ones count from the end
former_row(t, i) == t[((i + Len(t)) % Len(t)) + 1]

\* C5: a successful rearrange_kv_cache with m selected indices leaves every
\* slot with batch size m and row j equal to the former row selected_indices[j],
\* and leaves the slot identifiers and every slot's sequence length as they were.
RearrangeGathersBatchAxis ==
    [][\A bk \in Backends :
          (ret'.op = "rearrange_kv_cache" /\ ret'.ok[bk]) =>
              LET d == cache_of(bk)
                  e == cache_of(bk)'
                  m == Len(ret'.sel)
              IN  /\ Len(e) = Len(d)
                  /\ \A i \in 1..Len(d) :
                        /\ e[i].key = d[i].key
                        /\ shape0(e[i].val) = m
                        /\ shape1(e[i].val) = shape1(d[i].val)
                        /\ \A j \in 1..m :
                              e[i].val[j] = former_row(d[i].val, ret'.sel[j])]_vars

\* the last of two beams was repeated and the first dropped
RearrangedWithRepeatAndDrop ==
    /\ ret.op = "rearrange_kv_cache" /\ ret.sel = <<1, 1>>
    /\ \A bk \in Backends :
          /\ ret.ok[bk] /\ Keys(cache_of(bk)) = AllSlots
          /\ batch_of(cache_of(bk)) = 2
          /\ cache_of(bk)[1].val[1] = cache_of(bk)[1].val[2]

\* C6: a successful step on an empty cache stores every self-attention slot
\* with the length of the whole token sequence it was called with and every
\* cross-attention slot with the encoder length.
EmptyCacheStepUsesWholePrefix ==
    [][\A bk \in Backends :
          (ret'.op = "logits" /\ ret'.ok[bk] /\ cache_of(bk) = <<>>) =>
              /\ Keys(cache_of(bk)') = AllSlots
              /\ \A k \in SelfSlots : seq_len(cache_of(bk)', k) = ret'.len
              /\ \A k \in CrossSlots : seq_len(cache_of(bk)', k) = ret'.enc]_vars

\* the cache is empty, or primed: it holds every slot of every layer
EmptyOrPrimed(d) == Keys(d) = {} \/ Keys(d) = AllSlots

ResetCacheSharesNothing ==
    /\ [](\A bk \in Backends :
             kept[bk] # 0 =>
                 /\ kept[bk] # self_kv_cache[bk]
                 /\ heap[bk][kept[bk]] = kept_val[bk])
    /\ [][ret'.op = "cleanup_caching" =>
             \A bk \in Backends : cache_of(bk)' = <<>>]_vars

\* after a reset the run has stepped and reindexed while the caller holds the
\* previous, non-empty cache
SteppedAfterResetWithKeptCache ==
    /\ ret.op = "rearrange_kv_cache" /\ ret.sel = <<0>>
    /\ \A bk \in Backends :
          /\ kept[bk] # 0 /\ kept_val[bk] # <<>>
          /\ ret.ok[bk] /\ cache_of(bk) # <<>>
          /\ batch_of(kept_val[bk]) = 2 /\ batch_of(cache_of(bk)) = 1

\* C9: every decode starts with an empty cache of its own, and the dict a step
\* reads and writes is always one the current run made.
EachRunOwnsItsCache ==
    /\ [](\A bk \in Backends : owner[bk][self_kv_cache[bk]] = "run")
    /\ [][ret'.op = "decode" =>
             \A bk \in Backends :
                 /\ cache_of(bk)' = <<>>
                 /\ self_kv_cache'[bk] # kept[bk]]_vars

\* a second run has stepped while a dict of the first run is still held
SecondRunSteppedBesideOldCache ==
    \A bk \in Backends :
        /\ stepped(bk) /\ cache_of(bk) # <<>>
        /\ \E o \in Objs : owner[bk][o] = "old" /\ heap[bk][o] # <<>>

step_taken == nsteps' # nsteps

\* C11: a step on an empty cache that is given no encoder features fails with
\* the missing-features error on either backend and stores no slot: the cache
\* is still empty afterwards.
EmptyCacheStepNeedsFeatures ==
    [][\A bk \in Backends :
          (step_taken /\ ret'.enc = 0 /\ cache_of(bk) = <<>>) =>
              /\ ~ret'.ok[bk]
              /\ ret'.err[bk] = "MissingFeatures"
              /\ cache_of(bk)' = <<>>
              /\ fed'[bk] = 0]_vars

\* the very first call of a run was a step without features
FirstStepWithoutFeaturesRefused ==
    /\ ret.op = "logits" /\ ret.enc = 0
    /\ nsteps = 1 /\ nresets = 0 /\ nrearr = 0
    /\ \A bk \in Backends :
          ~ret.ok[bk] /\ ret.err[bk] = "MissingFeatures" /\ cache_of(bk) = <<>>

\* C12 as stated: the encoder features are optional on every step after the
\* first: a step without features on a cache that holds the cross-attention
\* slots succeeds, extends every self-attention slot by the tokens fed and
\* leaves the cross-attention slots as they were.
FeaturesOptionalAfterFirstStep ==
    [][\A bk \in Backends :
          (step_taken /\ ret'.enc = 0 /\ CrossSlots \subseteq Keys(cache_of(bk))) =>
              /\ ret'.ok[bk]
              /\ \A k \in SelfSlots :
                    seq_len(cache_of(bk)', k) = seq_len(cache_of(bk), k) + ret'.n
              /\ \A k \in CrossSlots :
                    Get(cache_of(bk)', k) = Get(cache_of(bk), k)]_vars

\* C12 amended: the encoder features are required on every step: on a cache
\* that holds the cross-attention slots a step without features fails on
\* either backend and leaves the cache as it was (with the missing-features
\* error whenever the token positions fit the positional table, which the
\* torch decoder looks at first); a step that succeeds on such a cache was
\* given features and extends every self-attention slot by the tokens fed
\* (within the positional bound).
FeaturesRequiredOnEveryStep ==
    [][\A bk \in Backends :
          (step_taken /\ CrossSlots \subseteq Keys(cache_of(bk))) =>
              /\ ret'.enc = 0 =>
                    /\ ~ret'.ok[bk]
                    /\ cache_of(bk)' = cache_of(bk)
                    /\ fed'[bk] = fed[bk]
                    /\ (bk = "engine" \/ CanEmbed(first_value_offset(cache_of(bk)), ret'.n))
                          => ret'.err[bk] = "MissingFeatures"
              /\ ret'.ok[bk] =>
                    /\ ret'.enc # 0
                    /\ fed'[bk] <= positional_embeddings_size =>
                          \A k \in SelfSlots :
                              seq_len(cache_of(bk)', k) = seq_len(cache_of(bk), k) + ret'.n]_vars

\* the second step of the scenario: one token fed, then a step without features
SecondStepWithoutFeaturesRefused ==
    /\ ret.op = "logits" /\ ret.enc = 0 /\ nsteps = 2
    /\ \A bk \in Backends :
          /\ ~ret.ok[bk] /\ ret.err[bk] = "MissingFeatures"
          /\ CrossSlots \subseteq Keys(cache_of(bk))
          /\ fed[bk] = 1

\* a call of rearrange_kv_cache has just returned or raised
reindex_taken == nrearr' # nrearr
InRange(sel, lo, hi) == \A j \in 1..Len(sel) : lo <= sel[j] /\ sel[j] <= hi

\* C13 as stated: on a cache that holds slots, reindex fails with
\* IndexOutOfRange exactly when some selected index lies outside 0..batch-1,
\* negative indices included.
ReindexFailsOutsideZeroToBatch ==
    [][\A bk \in Backends :
          (reindex_taken /\ cache_of(bk) # <<>>) =>
              /\ ret'.ok[bk] <=> InRange(ret'.sel, 0, batch_of(cache_of(bk)) - 1)
              /\ ~ret'.ok[bk] => ret'.err[bk] = "IndexOutOfRange"]_vars

\* C13 amended: on a cache that holds slots, reindex fails with
\* IndexOutOfRange exactly when some selected index lies outside
\* -batch..batch-1, and changes nothing then; an index i in -batch..-1 selects
\* row batch+i, so every selection within 0..batch-1 succeeds and so does one
\* with such negative indices. On an empty cache every selection succeeds and
\* the cache stays empty.
ReindexFailsOutsideMinusBatchToBatch ==
    [][\A bk \in Backends :
          reindex_taken =>
              IF cache_of(bk) = <<>>
              THEN ret'.ok[bk] /\ cache_of(bk)' = <<>>
              ELSE /\ ret'.ok[bk] <=> InRange(ret'.sel, -batch_of(cache_of(bk)),
                                              batch_of(cache_of(bk)) - 1)
                   /\ ~ret'.ok[bk] =>
                         ret'.err[bk] = "IndexOutOfRange" /\ cache_of(bk)' = cache_of(bk)
                   /\ ret'.ok[bk] =>
                         \A i \in 1..Len(cache_of(bk)) : \A j \in 1..Len(ret'.sel) :
                             cache_of(bk)'[i].val[j] =
                                 cache_of(bk)[i].val[1 + (ret'.sel[j] % batch_of(cache_of(bk)))]]_vars

\* a two-beam cache was asked for the beam past its end
ReindexRefusedPastTheEnd ==
    /\ ret.op = "rearrange_kv_cache" /\ ret.sel = <<2>>
    /\ \A bk \in Backends :
          /\ ~ret.ok[bk] /\ ret.err[bk] = "IndexOutOfRange"
          /\ cache_of(bk) # <<>> /\ batch_of(cache_of(bk)) = 2

engine_fed == step_taken /\ ret'.enc # 0
in_(s) == <<"in">> \o s
out_(s) == <<"out">> \o s
stored_from_outputs(outputs, cache) ==
    \A s \in AllSlots : s \in Keys(cache) /\ Get(cache, s) = Get(outputs, out_(s))

\* C15 as stated: every traced slot s has the engine input in_<s> and the
\* engine output out_<s>, and every slot the cache holds is fed to the next
\* step under in_<s> with the value it was stored with.
EverySlotFedUnderItsInputName ==
    [][engine_fed =>
          /\ \A s \in Range(traced_keys) :
                in_(s) \in Range(input_names) /\ out_(s) \in Range(output_names)
          /\ \A s \in Keys(cache_of("engine")) :
                /\ in_(s) \in Keys(ret'.feed)
                /\ Get(ret'.feed, in_(s)) = Get(cache_of("engine"), s)]_vars

\* C15 amended: the engine outputs are logits and out_<s> for every traced
\* slot s, and a successful step stores each out_<s> under s; the engine
\* inputs are tokens, audio_features and in_<s> for the self-attention slots
\* only. A self-attention slot the cache holds is fed to the next step under
\* in_<s> with the value it was stored with; a cross-attention slot is never
\* fed back.
SelfSlotsFedUnderTheirInputNames ==
    [][engine_fed =>
          /\ Range(traced_keys) = AllSlots
          /\ Range(output_names) = {<<"logits">>} \cup {out_(s) : s \in AllSlots}
          /\ Range(input_names) =
                {<<"tokens">>, <<"audio_features">>} \cup {in_(s) : s \in SelfSlots}
          /\ Keys(ret'.feed) = Range(input_names)
          /\ \A s \in Keys(cache_of("engine")) :
                IF s \in SelfSlots
                THEN Get(ret'.feed, in_(s)) = Get(cache_of("engine"), s)
                ELSE in_(s) \notin Keys(ret'.feed)
          /\ ret'.ok["engine"] =>
                stored_from_outputs(compiled_model(ret'.feed).outputs,
                                    cache_of("engine")')]_vars

\* the second step of the engine was fed the self-attention slots of the first
SecondEngineStepFedFirstOutputs ==
    /\ ret.op = "logits" /\ ret.ok["engine"] /\ nsteps = 2 /\ fed["engine"] = 2
    /\ \A s \in SelfSlots : shape1(Get(ret.feed, in_(s))) = 1

\* C16: on an empty cache the compiled decoder is fed, for every declared
\* cache input, a placeholder with the batch size of the tokens and sequence
\* length 0 (the feature axis is not modelled), next to the tokens and the
\* audio features of the call, unchanged.
EmptyCacheFeedsZeroLengthPlaceholders ==
    [][(engine_fed /\ cache_of("engine") = <<>>) =>
          /\ Keys(ret'.feed) = Range(input_names)
          /\ Get(ret'.feed, <<"tokens">>) = fed_tokens(tokens_of(ret'.batch, ret'.len))
          /\ Get(ret'.feed, <<"audio_features">>) =
                features(ret'.aid, ret'.enc, ret'.batch)
          /\ \A nm \in Range(input_names) \ {<<"tokens">>, <<"audio_features">>} :
                /\ shape0(Get(ret'.feed, nm)) = ret'.batch
                /\ \A r \in 1..ret'.batch : Get(ret'.feed, nm)[r] = <<>>]_vars

\* the first step of a run, with two beams, fed two-row placeholders
FirstStepFedTwoRowPlaceholders ==
    /\ ret.op = "logits" /\ ret.batch = 2 /\ ret.ok["engine"]
    /\ nsteps = 1 /\ nresets = 0 /\ nrearr = 0
    /\ \A s \in SelfSlots : Get(ret.feed, in_(s)) = <<(<<>>), (<<>>)>>

\* the sequence length of the value a step of the torch decoder saves for slot k
saved_len(k) == IF k[3] = "c" THEN ret'.enc ELSE ret'.logits["direct"][2]
torch_saved == step_taken /\ ret'.ok["direct"]
is_prefix(old, new) ==
    \A r \in 1..Len(old) : SubSeq(new[r], 1, Len(old[r])) = old[r]

\* C17 as stated: a new value replaces the slot when the length the slot
\* already has equals the context bound, and is appended to it otherwise.
GrowthDecidedByExistingLength ==
    [][torch_saved =>
          \A k \in Keys(cache_of("direct")) :
              seq_len(cache_of("direct")', k) =
                  IF seq_len(cache_of("direct"), k) = positional_embeddings_size
                  THEN saved_len(k)
                  ELSE seq_len(cache_of("direct"), k) + saved_len(k)]_vars

\* C17 amended: a new value replaces the slot when the slot is absent or
\* when the new value itself is longer than the positional-embedding size;
\* otherwise it is appended to the slot, whatever length the slot has.
GrowthDecidedByNewValueLength ==
    [][torch_saved =>
          \A k \in AllSlots :
              IF k \notin Keys(cache_of("direct")) \/ saved_len(k) > positional_embeddings_size
              THEN seq_len(cache_of("direct")', k) = saved_len(k)
              ELSE /\ seq_len(cache_of("direct")', k) =
                        seq_len(cache_of("direct"), k) + saved_len(k)
                   /\ is_prefix(Get(cache_of("direct"), k),
                                Get(cache_of("direct")', k))]_vars

\* a step appended nothing new to self-attention slots already at the
\* positional size and replaced the longer cross-attention slots
FullSelfSlotKeptAndCrossSlotReplaced ==
    /\ ret.op = "logits" /\ ret.ok["direct"] /\ nsteps = 2
    /\ ret.enc > positional_embeddings_size
    /\ ret.logits["direct"][2] = 0
    /\ \A k \in SelfSlots :
          seq_len(cache_of("direct"), k) = positional_embeddings_size
    /\ \A k \in CrossSlots : seq_len(cache_of("direct"), k) = ret.enc

\* a later step on cache d with the features of another audio of the same
\* shape, and whether it left the cross-attention slots of d as they were
other_features(d) == features(2, seq_len(d, slot("k", 1, "c")), batch_of(d))
cross_slots_kept(r, d) ==
    r.ok => \A k \in CrossSlots : Get(r.cache, k) = Get(d, k)

\* C18: the cross-attention projections are computed once per run: a step on
\* a cache that holds them only reads them, so whatever features that step is
\* given, the cross-attention slots keep the value the first step stored.
CrossProjectionsComputedOnce ==
    \A bk \in Backends :
        CrossSlots \subseteq Keys(cache_of(bk)) =>
            cross_slots_kept(decoder(bk, tokens_of(batch_of(cache_of(bk)), 1),
                                     other_features(cache_of(bk)), cache_of(bk)),
                             cache_of(bk))

\* the dicts of backend bk other than the one self.kv_cache is or becomes
\* bound to are as they were
other_dicts_unchanged(bk) ==
    \A o \in Objs \ {self_kv_cache[bk], self_kv_cache'[bk]} : heap'[bk][o] = heap[bk][o]
same_but_batch(old, new) ==
    /\ Len(new) = Len(old)
    /\ \A i \in 1..Len(old) :
          new[i].key = old[i].key /\ shape1(new[i].val) = shape1(old[i].val)

call_features ==
    IF ret'.enc = 0 THEN None ELSE features(ret'.aid, ret'.enc, ret'.batch)
surfaced(bk, r) ==
    ~r.ok =>
        /\ ~ret'.ok[bk] /\ ret'.err[bk] = r.err
        /\ ret'.logits[bk] = <<0, 0>>
        /\ self_kv_cache'[bk] = self_kv_cache[bk]
        /\ cache_of(bk)' = cache_of(bk)
        /\ fed'[bk] = fed[bk]

self_len(d) == seq_len(d, slot("k", 1, "a"))
loop_call(bk) ==
    /\ step_taken /\ ret'.ok[bk]
    /\ \/ cache_of(bk) = <<>> /\ ret'.len = initial_token_length
       \/ /\ cache_of(bk) # <<>>
          /\ self_len(cache_of(bk)) >= initial_token_length
          /\ ret'.len = self_len(cache_of(bk)) + 1
feeds_whole_or_last ==
    step_taken =>
        /\ ret'.n = IF ret'.len <= initial_token_length THEN ret'.len ELSE 1
        /\ ret'.enc # 0 =>
              Get(ret'.feed, <<"tokens">>) =
                  IF ret'.len <= initial_token_length
                  THEN tokens_of(ret'.batch, ret'.len)
                  ELSE last_column(tokens_of(ret'.batch, ret'.len))

SavedOutputs == {features(1, n, b) : n \in 0..n_audio_ctx, b \in 1..MaxBatch}
others_unchanged(d, k, r) ==
    /\ Keys(r.cache) = Keys(d) \cup {k}
    /\ \A i \in 1..Len(d) : r.cache[i].key = d[i].key
    /\ \A k2 \in Keys(d) \ {k} : Get(r.cache, k2) = Get(d, k2)
stored_verbatim(k, out, r) == r.ok /\ Get(r.cache, k) = out
stored_appended(d, k, out, r) ==
    /\ r.ok
    /\ seq_len(r.cache, k) = seq_len(d, k) + shape1(out)
    /\ Len(Get(r.cache, k)) = Len(out)
    /\ \A i \in 1..Len(out) : Get(r.cache, k)[i] = Get(d, k)[i] \o out[i]
replaces(d, k, out) == k \notin Keys(d) \/ shape1(out) > positional_embeddings_size
saves_as_stated(d, k, out, r) ==
    /\ others_unchanged(d, k, r)
    /\ IF replaces(d, k, out) THEN stored_verbatim(k, out, r)
       ELSE stored_appended(d, k, out, r)
saves_or_raises(d, k, out, r) ==
    IF replaces(d, k, out) THEN stored_verbatim(k, out, r) /\ others_unchanged(d, k, r)
    ELSE IF shape0(Get(d, k)) = shape0(out)
         THEN stored_appended(d, k, out, r) /\ others_unchanged(d, k, r)
         ELSE ~r.ok /\ r.cache = d

\* C25 as stated: on every cache the torch decoder reaches, save_to_cache
\* stores the output verbatim when the slot is absent or the output is longer
\* than the positional-embedding size, in every other case stores the old
\* value followed by the output, and changes no other slot.
SaveToCacheReplacesOrAppends ==
    \A k \in AllSlots : \A out \in SavedOutputs :
        saves_as_stated(cache_of("direct"), k, out,
                        save_to_cache(cache_of("direct"), k, out))

\* C25 amended: in the other cases the old value and the output are
\* concatenated only when their batch sizes agree; when they differ
\* save_to_cache raises and stores nothing.
SaveToCacheReplacesAppendsOrRaises ==
    \A k \in AllSlots : \A out \in SavedOutputs :
        saves_or_raises(cache_of("direct"), k, out,
                        save_to_cache(cache_of("direct"), k, out))

\* the second step of the torch decoder appended to the self-attention slots
\* and replaced the cross-attention slots by an output above the bound
AppendedSelfAndReplacedCross ==
    /\ ret.op = "logits" /\ ret.ok["direct"] /\ nsteps = 2 /\ nresets = 0
    /\ ret.n = 1 /\ fed["direct"] = 2
    /\ ret.enc > positional_embeddings_size
    /\ \A k \in SelfSlots : seq_len(cache_of("direct"), k) = 2
    /\ \A k \in CrossSlots : seq_len(cache_of("direct"), k) = ret.enc

\* features of any batch size, the batch size of the tokens or another
AnyFeatureInputs ==
    {None} \cup {features(aid, enc, b) : aid \in AudioIds, enc \in EncLens,
                                          b \in 1..MaxBatch + 1}
untouched_if_failed(r, d) == ~r.ok => r.cache = d

FeedHasOneEntryPerDeclaredInput ==
    [][engine_fed =>
          /\ Len(ret'.feed) = Len(input_names)
          /\ \A nm \in Range(input_names) :
                Cardinality({i \in 1..Len(ret'.feed) : ret'.feed[i].key = nm}) = 1
          /\ \A s \in Keys(cache_of("engine")) :
                in_(s) \notin Range(input_names) => in_(s) \notin Keys(ret'.feed)]_vars

\* an engine step on a reindexed cache that holds the cross-attention slots
EngineFedAfterReindex ==
    /\ ret.op = "logits" /\ ret.ok["engine"] /\ nsteps = 2 /\ nrearr = 1 /\ nresets = 0
    /\ fed["engine"] = 2
    /\ Len(ret.feed) = Len(input_names)
    /\ \A s \in CrossSlots : in_(s) \notin Keys(ret.feed)

\* ---- the model.logits override --------------------------------------------
\* a faulty variant: the override hands the running inference's cache on
override_kv_cache_of_inference == cache_of("engine")

\* model.decoder(tokens, audio_features, None): the kv_cache argument
override_kv_cache == None

\* return model.decoder(tokens, audio_features, None)[0]: the decoder is the
\* compiled one; the dict it returns is dropped
override_returned(tokens, audio_features, r) ==
    [NoCall("model.logits") EXCEPT
        !.batch = shape0(tokens), !.len = shape1(tokens), !.n = shape1(tokens),
        !.enc = IF audio_features = None THEN 0 ELSE shape1(audio_features),
        !.aid = IF audio_features = None THEN 0 ELSE audio_features[1][1][1],
        !.ok = per_backend(TRUE, r.ok),
        !.err = per_backend("", r.err),
        !.logits = per_backend(<<0, 0>>, shape_of(r.logits)),
        !.feed = IF audio_features = None THEN <<>>
                 ELSE feed_dict_of(tokens, audio_features, override_kv_cache)]

model_logits(tokens, audio_features) ==
    /\ ret' = override_returned(tokens, audio_features,
                                forward(tokens, audio_features, override_kv_cache))
    /\ UNCHANGED notebook_vars
    /\ UNCHANGED <<heap, self_kv_cache, kept, kept_val, owner, initial_token_length,
                   nsteps, nrearr, nresets, fed>>

\* the override is called with whole token sequences within the positional
\* table, of one token or longer than initial_token_length can be
OverrideTokenInputs ==
    {tokens_of(b, len) : b \in 1..MaxBatch, len \in {1, positional_embeddings_size}}
OverrideFeatureInputs(batch) == {features(1, n_audio_ctx, batch)}

\* the decode the override is called within: steps on the shipped encoder
\* length and beam selections within the cache
NextOverride ==
    \/ \E itl \in 1..positional_embeddings_size : decode(itl)
    \/ \E tokens \in OverrideTokenInputs :
          \E audio_features \in OverrideFeatureInputs(shape0(tokens)) :
              logits(tokens, audio_features)
    \/ cleanup_caching
    \/ \E source_indices \in {<<0>>, reversed(cache_batch(cache_of("engine")))} :
          rearrange_kv_cache(source_indices)
    \/ \E tokens \in OverrideTokenInputs :
          \E audio_features \in OverrideFeatureInputs(shape0(tokens)) :
              model_logits(tokens, audio_features)

SpecOverride == Init /\ [][NextOverride]_vars

override_called == ret'.op = "model.logits"
cold_start_feed(feed, tokens) ==
    /\ Get(feed, <<"tokens">>) = tokens
    /\ \A s \in SelfSlots : Get(feed, in_(s)) = zeros(shape0(tokens))
inferences_unchanged ==
    /\ heap' = heap
    /\ self_kv_cache' = self_kv_cache
    /\ kept' = kept
    /\ kept_val' = kept_val
    /\ initial_token_length' = initial_token_length
    /\ fed' = fed

\* C29: the model.logits override is stateless: every call gives the compiled
\* decoder the whole token sequence and a zero-length placeholder for every
\* cache input, returns logits for every position of the sequence, and
\* leaves the dicts and the initial_token_length of every OpenVINOInference
\* as they were, whatever a running decode has cached.
ModelLogitsOverrideIsStateless ==
    [][override_called =>
          /\ cold_start_feed(ret'.feed, tokens_of(ret'.batch, ret'.len))
          /\ ret'.ok["engine"]
          /\ ret'.logits["engine"] = <<ret'.batch, ret'.len>>
          /\ inferences_unchanged]_vars

\* the override was called on a sequence longer than initial_token_length
\* after the first step of a decode, whose cache is still there
OverrideCalledWithinDecode ==
    /\ ret.op = "model.logits"
    /\ nsteps = 1
    /\ cache_of("engine") # <<>>
    /\ initial_token_length = 1
    /\ ret.len = positional_embeddings_size
    /\ ret.logits["engine"] = <<ret.batch, positional_embeddings_size>>

declared_dynamic(nm) ==
    IF nm \in Keys(dynamic_axes) THEN Keys(Get(dynamic_axes, nm)) ELSE {}
engine_returned == ret.op = "logits" /\ ret.enc # 0 /\ ret.ok["engine"]
sequence_axis_for_self_only(s) ==
    /\ 0 \in declared_dynamic(in_(s)) \cap declared_dynamic(out_(s))
    /\ 2 \notin declared_dynamic(in_(s)) \cup declared_dynamic(out_(s))
    /\ 1 \in declared_dynamic(in_(s)) \cup declared_dynamic(out_(s)) <=> s \in SelfSlots
cache_names == {in_(s) : s \in AllSlots} \cup {out_(s) : s \in AllSlots}
export_declares_every_cache_name ==
    /\ Keys(dynamic_axes) = {<<"tokens">>, <<"audio_features">>, <<"logits">>} \cup cache_names
    /\ declared_dynamic(<<"tokens">>) = {0, 1}
    /\ declared_dynamic(<<"logits">>) = {0, 1}
    /\ declared_dynamic(<<"audio_features">>) = {0}
    /\ \A nm \in cache_names : declared_dynamic(nm) = {0, 1}
fed_within_converted_shapes(feed) ==
    /\ Keys(feed) = {<<"tokens">>, <<"audio_features">>} \cup {in_(s) : s \in SelfSlots}
    /\ \A nm \in Keys(feed) : shape0(Get(feed, nm)) \in 1..engine_max_beam
    /\ shape1(Get(feed, <<"tokens">>)) \in 1..engine_max_seq
    /\ shape1(Get(feed, <<"audio_features">>)) = n_audio_ctx
    /\ \A s \in SelfSlots : shape1(Get(feed, in_(s))) \in 0..engine_max_seq
returned_cross_static(cache) ==
    \A s \in CrossSlots : seq_len(cache, s) = n_audio_ctx

\* C21 as stated: of the slots the compiled decoder returned, the export
\* declares the batch axis dynamic for every one, the feature axis for none,
\* and the sequence axis for the self-attention ones only.
DeclaredSequenceAxisForSelfSlotsOnly ==
    engine_returned => \A s \in Keys(cache_of("engine")) : sequence_axis_for_self_only(s)

\* C21: the export declares axes 0 and 1 dynamic for tokens, logits and the
\* input and output name of every cache slot, cross-attention ones included,
\* and axis 0 only for audio_features; the feature axis is declared for no
\* name.  The conversion bounds the inputs: every feed the compiled decoder
\* accepts holds tokens, audio_features and the self-attention inputs with a
\* batch of 1..engine_max_beam, a token length of 1..engine_max_seq, cached
\* lengths of 0..engine_max_seq and an encoder length of exactly
\* n_audio_ctx, so every cross-attention slot it returns has n_audio_ctx
\* positions.
DeclaredAxesAndConvertedShapes ==
    engine_returned =>
        /\ export_declares_every_cache_name
        /\ fed_within_converted_shapes(ret.feed)
        /\ returned_cross_static(cache_of("engine"))

\* the compiled decoder ran on another batch size and cached length than
\* those of the trace
EngineRanOffTheTracedShapes ==
    /\ engine_returned
    /\ ret.batch = MaxBatch
    /\ seq_len(cache_of("engine"), slot("k", 1, "a")) = 2
    /\ seq_len(cache_of("engine"), slot("k", 1, "c")) = n_audio_ctx
    /\ shape1(Get(ret.feed, in_(slot("k", 1, "a")))) = 1

\* ---- format_timestamp ------------------------------------------------------
\* Strings are sequences of characters.  str(n) and f"{n:02d}" of an integer
\* n >= 0.
DigitChars == <<"0", "1", "2", "3", "4", "5", "6", "7", "8", "9">>
RECURSIVE str(_)
str(n) ==
    IF n < 10 THEN <<DigitChars[n + 1]>>
    ELSE str(n \div 10) \o <<DigitChars[(n % 10) + 1]>>
RECURSIVE left_padded(_, _)
left_padded(digits, width) ==
    IF Len(digits) >= width THEN digits ELSE left_padded(<<"0">> \o digits, width)
zero_padded(n, width) == left_padded(str(n), width)

AssertionError == <<"AssertionError">>

\* hours = milliseconds // 3_600_000; milliseconds -= hours * 3_600_000; and
\* so on for minutes and seconds
hours_of(milliseconds) == milliseconds \div 3600000
less_hours(milliseconds) == milliseconds - hours_of(milliseconds) * 3600000
minutes_of(milliseconds) == less_hours(milliseconds) \div 60000
less_minutes(milliseconds) ==
    less_hours(milliseconds) - minutes_of(milliseconds) * 60000
seconds_of(milliseconds) == less_minutes(milliseconds) \div 1000
less_seconds(milliseconds) ==
    less_minutes(milliseconds) - seconds_of(milliseconds) * 1000

\* format_timestamp(seconds), seconds given in whole milliseconds, for which
\* round(seconds * 1000.0) is that number of milliseconds
format_timestamp(secs) ==
    IF ~(secs >= 0) THEN AssertionError
    ELSE (IF hours_of(secs) > 0 THEN str(hours_of(secs)) \o <<":">>
          ELSE <<"0", "0", ":">>)
         \o zero_padded(minutes_of(secs), 2) \o <<":">>
         \o zero_padded(seconds_of(secs), 2) \o <<",">>
         \o zero_padded(less_seconds(secs), 3)

call_format_timestamp ==
    /\ timestamp = None
    /\ timestamp' = format_timestamp(seconds)
    /\ UNCHANGED <<decoder_vars, video_vars, seconds>>

\* times around every field's carry, below and above one hour, with one,
\* two and three digits of hours, and negative ones
StampHours == {0, 1, 9, 10, 99, 100}
TimeInputs ==
    {-1000, -1} \cup
    {h * 3600000 + m * 60000 + sec * 1000 + ms :
        h \in StampHours, m \in {0, 59}, sec \in {0, 59}, ms \in {0, 1, 999}}

InitTimestamp ==
    /\ InitDecoder
    /\ initial_token_length = 1
    /\ video_not_run
    /\ seconds \in TimeInputs
    /\ timestamp = None

NextTimestamp == call_format_timestamp

SpecTimestamp == InitTimestamp /\ [][NextTimestamp]_vars

is_digit(c) == \E d \in 1..10 : DigitChars[d] = c
digit_value(c) == (CHOOSE d \in 1..10 : DigitChars[d] = c) - 1
RECURSIVE number(_)
number(digits) ==
    IF digits = <<>> THEN 0
    ELSE 10 * number(SubSeq(digits, 1, Len(digits) - 1)) + digit_value(digits[Len(digits)])
is_HH_MM_SS_mmm(t) ==
    /\ Len(t) = 12
    /\ t[3] = ":" /\ t[6] = ":" /\ t[9] = ","
    /\ \A i \in {1, 2, 4, 5, 7, 8, 10, 11, 12} : is_digit(t[i])
    /\ number(SubSeq(t, 4, 5)) \in 0..59
    /\ number(SubSeq(t, 7, 8)) \in 0..59
read_back(t) ==
    number(SubSeq(t, 1, 2)) * 3600000 + number(SubSeq(t, 4, 5)) * 60000
    + number(SubSeq(t, 7, 8)) * 1000 + number(SubSeq(t, 10, 12))

\* C22: format_timestamp of a negative time fails its assertion, and of a
\* non-negative time in whole milliseconds it returns HH:MM:SS,mmm with two
\* digits of hours, minutes and seconds in 0..59 and three digits of
\* milliseconds, which read back give the time.
TimestampIsTwoDigitHoursMinutesSecondsMillis ==
    timestamp # None =>
        IF seconds < 0 THEN timestamp = AssertionError
        ELSE is_HH_MM_SS_mmm(timestamp) /\ read_back(timestamp) = seconds

\* ---- the video cells --------------------------------------------------------
\* range(start, stop, step) for step > 0
RECURSIVE range(_, _, _)
range(start, stop, step) ==
    IF start >= stop THEN <<>>
    ELSE <<start>> \o range(start + step, stop, step)

\* int(total_duration): the whole seconds of a non-negative time
int(milliseconds) == milliseconds \div 1000

min(a, b) == IF a <= b THEN a ELSE b

\* one pass of the loop of split_video for every i of the range: start_time = i,
\* end_time = min(i + duration, total_duration), both kept in milliseconds
subclips(starts, d, total_duration) ==
    tuple([j \in 1..Len(starts) |->
              <<1000 * starts[j], min(1000 * (starts[j] + d), total_duration)>>])

split_video(d) ==
    /\ cell = "split_video"
    /\ duration' = d
    /\ audio_files' = subclips(range(0, int(clip_duration), d), d, clip_duration)
    /\ cell' = "transcribe"
    /\ UNCHANGED <<decoder_vars, clip_duration, transcription, txt_file, srt_file,
                   seconds, timestamp>>

\* model.transcribe(audio) of one file, heard as n segments of equal length:
\* the segments have ids from 0 and times counted from the start of the file,
\* the text of a segment names its file and its place in it, and the text of
\* the transcription is the texts of its segments one after another
segment_text(audio_file, j) ==
    <<"file">> \o str(audio_file[1]) \o <<"segment">> \o str(j)
segments_of(audio_file, n) ==
    tuple([j \in 1..n |->
              [id |-> j - 1,
               start |-> ((j - 1) * (audio_file[2] - audio_file[1])) \div n,
               end |-> (j * (audio_file[2] - audio_file[1])) \div n,
               text |-> segment_text(audio_file, j)]])
RECURSIVE joined(_)
joined(segments) ==
    IF segments = <<>> THEN <<>> ELSE segments[1].text \o joined(Tail(segments))
transcribe(audio_file, n) ==
    [text |-> joined(segments_of(audio_file, n)), segments |-> segments_of(audio_file, n)]

\* the value of the global transcription when the loop has ended
last_transcription(files, heard) == transcribe(files[Len(files)], heard[Len(files)])

\* the transcription cell: the text file is emptied, then for every file of
\* audio_files its transcription is assigned to transcription and its text
\* appended to the text file; heard[i] is the number of segments of file i
transcription_loop(heard) ==
    /\ cell = "transcribe"
    /\ txt_file' = tuple([i \in 1..Len(audio_files) |->
                             transcribe(audio_files[i], heard[i]).text \o <<"\n">>])
    /\ transcription' = IF audio_files = <<>> THEN transcription
                        ELSE last_transcription(audio_files, heard)
    /\ cell' = "srt"
    /\ UNCHANGED <<decoder_vars, clip_duration, duration, audio_files, srt_file,
                   seconds, timestamp>>

RECURSIVE prepare_srt_from(_)
prepare_srt_from(segments) ==
    IF segments = <<>> THEN <<>>
    ELSE << str(segments[1].id + 1) \o <<"\n">>,
            format_timestamp(segments[1].start) \o <<" --> ">>
                \o format_timestamp(segments[1].end) \o <<"\n">>,
            segments[1].text \o <<"\n\n">> >>
         \o prepare_srt_from(Tail(segments))
prepare_srt(t) == prepare_srt_from(t.segments)

\* the srt cell: prepare_srt(transcription) written to downloaded_video.srt;
\* with no file in audio_files the name transcription is undefined
write_srt ==
    /\ cell = "srt"
    /\ IF transcription = None
       THEN srt_file' = srt_file /\ cell' = "NameError"
       ELSE srt_file' = prepare_srt(transcription) /\ cell' = "done"
    /\ UNCHANGED <<decoder_vars, clip_duration, duration, audio_files, transcription,
                   txt_file, seconds, timestamp>>

\* video lengths in milliseconds with and without a fraction of a second,
\* chunk lengths in seconds, segments heard in one file
VideoLengths == {0, 500, 1000, 1500, 2000, 2500, 3000, 3500, 4000}
ChunkLengths == {1, 2, 3}
MaxSegments == 2

InitVideo ==
    /\ InitDecoder
    /\ initial_token_length = 1
    /\ timestamp_not_called
    /\ clip_duration \in VideoLengths
    /\ duration = 0
    /\ audio_files = <<>>
    /\ transcription = None
    /\ txt_file = None
    /\ srt_file = None
    /\ cell = "split_video"

NextVideo ==
    \/ \E d \in ChunkLengths : split_video(d)
    \/ \E heard \in [1..Len(audio_files) -> 1..MaxSegments] : transcription_loop(heard)
    \/ write_srt

SpecVideo == InitVideo /\ [][NextVideo]_vars

partitions(files, total_duration, d) ==
    IF total_duration = 0 THEN files = <<>>
    ELSE /\ files # <<>>
         /\ files[1][1] = 0
         /\ \A i \in 1..Len(files) - 1 : files[i + 1][1] = files[i][2]
         /\ \A i \in 1..Len(files) :
               files[i][1] < files[i][2] /\ files[i][2] - files[i][1] <= 1000 * d
         /\ files[Len(files)][2] = total_duration

\* C30: the files split_video returned are consecutive intervals that
\* partition the video: the first starts at 0, each starts where the one
\* before it ends, none is longer than duration, and the last ends at the
\* video's length.
ChunksPartitionTheVideo ==
    duration # 0 => partitions(audio_files, clip_duration, duration)

first_entry_of(audio_file) == segment_text(audio_file, 1) \o <<"\n\n">>

\* C23: once the srt cell has run on a video cut into one or more files, the
\* srt file holds the subtitle entries of every file: as many entries as the
\* text file has lines or more, the first entry of each file among them.
SrtHoldsEveryChunk ==
    (cell = "done" /\ Len(audio_files) >= 1) =>
        /\ Len(txt_file) = Len(audio_files)
        /\ Len(srt_file) >= 3 * Len(audio_files)
        /\ \A i \in 1..Len(audio_files) :
              first_entry_of(audio_files[i]) \in Range(srt_file)
====
